---- MODULE Spec2Model ----
(***************************************************************************)
(* Model of static/app.js: a chat widget driven by two async handlers,     *)
(* startSession and send, on the browser's single-threaded event loop.     *)
(* Each action is one task of the event loop: a handler run up to its      *)
(* first await, or the continuation of a handler after its awaits settle.  *)
(*                                                                         *)
(* Text is a sequence of tokens.  A token is a one-character string, or an *)
(* opaque chunk that trim leaves alone (a server reply, a literal message  *)
(* of the program).                                                        *)
(***************************************************************************)
EXTENDS Integers, Sequences, FiniteSets, TLC

\* Number of requests issued during one page load (the code has no limit).
MaxReq == 2

\* Length of the texts renderText is applied to.
MaxLen == 5

\* ------------------------------------------------------------------------
\* Values
\* ------------------------------------------------------------------------

\* Characters String.prototype.trim strips (those the inputs below contain).
WhiteSpace == {" ", "\n"}

\* What the user may type into #userId and into #message.
TypedUserIds == { <<" ">>, <<" ", "a", " ">>, <<"b">> }
TypedMessages == { <<" ">>, <<"x", " ">> }

\* The literal messages of the program (NoResponseMsg with a plain
\* apostrophe for the typographic one of the source).
EnterYourName == <<"Enter your name">>
WelcomeBackMsg == <<"Welcome back! You can start chatting.">>
FailedStartMsg == <<"Failed to start session. Please try again.">>
NoResponseMsg == <<"Hmm, I didn't get a response. Please try again.">>
NetworkErrorMsg == <<"Network error. Please try again.">>

\* Parsed JSON bodies a server may send.  isNull: the body is the JSON
\* value null; a field that is absent or the empty string is <<>>, falsy
\* in both cases.
DataValues ==
  { [isNull |-> TRUE,  message |-> <<>>,     response |-> <<>>],
    [isNull |-> FALSE, message |-> <<>>,     response |-> <<>>],
    [isNull |-> FALSE, message |-> <<"Hi">>, response |-> <<>>],
    [isNull |-> FALSE, message |-> <<>>,     response |-> <<"Hello">>] }

NoData == [isNull |-> TRUE, message |-> <<>>, response |-> <<>>]

\* typingEl = null
Null == 0

\* The characters renderText tells apart, and a letter for all the others.
RenderChars == {"*", "\n", "-", "a"}

RECURSIVE TextsUpTo(_)
TextsUpTo(k) ==
  IF k = 0 THEN { <<>> }
  ELSE LET shorter == TextsUpTo(k - 1) IN
       shorter \cup { Append(t, c) : t \in {u \in shorter : Len(u) = k - 1}, c \in RenderChars }

\* The texts passed to renderText.
RenderTexts == TextsUpTo(MaxLen)

VARIABLES
  userInput,    \* userInput.value
  msgInput,     \* msgInput.value
  currentUser,  \* let currentUser
  typingEl,     \* let typingEl: Null, or the indicator node it refers to
  chat,         \* children of #chat, in document order
  calls,        \* the async calls that reached their fetch, in issue order
  alerted,      \* text of the alert raised by the task just run, or <<>>
  event,        \* the task the event loop ran last
  rtText,       \* renderText: its argument
  rtHtml        \* renderText: its result, <<>> before the call returns

vars == <<userInput, msgInput, currentUser, typingEl, chat, calls, alerted, event,
          rtText, rtHtml>>

\* The widget's part of the state and renderText's.
widgetVars == <<userInput, msgInput, currentUser, typingEl, chat, calls, alerted, event>>
renderVars == <<rtText, rtHtml>>

\* ------------------------------------------------------------------------
\* Pure helpers
\* ------------------------------------------------------------------------

RECURSIVE TrimStart(_)
TrimStart(s) ==
  IF s = <<>> THEN <<>>
  ELSE IF Head(s) \in WhiteSpace THEN TrimStart(Tail(s)) ELSE s

RECURSIVE TrimEnd(_)
TrimEnd(s) ==
  IF s = <<>> THEN <<>>
  ELSE IF s[Len(s)] \in WhiteSpace THEN TrimEnd(SubSeq(s, 1, Len(s) - 1)) ELSE s

\* String.prototype.trim
Trim(s) == TrimEnd(TrimStart(s))

\* The widget's DOM state the helpers work on.
Dom(c, te) == [chat |-> c, typingEl |-> te]

\* A child of #chat.  node identifies the element: the call whose code
\* created it (each call creates at most one element per role).
Row(role, text, n) == [role |-> role, text |-> text, node |-> n]

IsTyping(row) == row.role = "typing"

\* typingEl.parentNode === chat
Attached(d) ==
  \E i \in 1..Len(d.chat) : IsTyping(d.chat[i]) /\ d.chat[i].node = d.typingEl

\* addMessage with the two style classes exchanged
addMessageSwapped(d, role, text, n) ==
  [d EXCEPT !.chat = Append(d.chat,
      Row(IF role = "user" THEN "assistant" ELSE "user", text, n))]

\* addMessage(role, text), run by call n
addMessage(d, role, text, n) ==
  [d EXCEPT !.chat = Append(d.chat,
      Row(IF role = "user" THEN "user" ELSE "assistant", text, n))]

\* showTyping with its test inverted
showTypingInverted(d, n) ==
  IF d.typingEl = Null THEN d
  ELSE [chat |-> Append(d.chat, Row("typing", <<>>, n)), typingEl |-> n]

\* showTyping without its early return
showTypingUnguarded(d, n) ==
  [chat |-> Append(d.chat, Row("typing", <<>>, n)), typingEl |-> n]

\* showTyping(), run by call n
showTyping(d, n) ==
  IF d.typingEl # Null THEN d
  ELSE [chat |-> Append(d.chat, Row("typing", <<>>, n)), typingEl |-> n]

\* hideTyping that forgets the node and leaves it in the log
hideTypingKeepsNode(d) == [d EXCEPT !.typingEl = Null]

\* hideTyping()
hideTyping(d) ==
  IF d.typingEl = Null THEN d
  ELSE [chat |-> IF Attached(d)
                 THEN SelectSeq(d.chat,
                        LAMBDA row : ~(IsTyping(row) /\ row.node = d.typingEl))
                 ELSE d.chat,
        typingEl |-> Null]

\* chat.innerHTML = ''
clearChat(d) == [d EXCEPT !.chat = <<>>]

\* startSession without its validation
StartAcceptsAny(userId) == TRUE

\* if(!userId) { alert; return }
StartAccepts(userId) == userId # <<>>

\* send's guard without the session test
SendAcceptsTextOnly(text, user) == text # <<>>

\* if(!text || !currentUser) return
SendAccepts(text, user) == text # <<>> /\ user # <<>>

\* res.ok && data && data.message
StartPayloadOk(ok, data) == ok /\ ~data.isNull /\ data.message # <<>>

\* res.ok && data && data.response
ChatPayloadOk(ok, data) == ok /\ ~data.isNull /\ data.response # <<>>

\* The frame of an async call suspended at an await.
\* pc: "fetch" (awaiting fetch), "json" (awaiting res.json()),
\*     "done" (the try block ran to its end), "failed" (the catch block ran).
\* userId and text are the handler's locals; ok is res.ok once fetch resolved.
Call(kind, userId, text) ==
  [kind |-> kind, userId |-> userId, text |-> text,
   pc |-> "fetch", ok |-> FALSE]

\* A call that returned: its frame is released, its outcome stays on record.
Settled(kind, pc) ==
  [kind |-> kind, userId |-> <<>>, text |-> <<>>, pc |-> pc, ok |-> FALSE]

\* A task of the event loop: what was dispatched, the call it belongs to
\* (0: none was issued), and the body a resolved res.json() delivered.
Ev(op, n, data) == [op |-> op, call |-> n, data |-> data]

\* ------------------------------------------------------------------------
\* Initial state: the page as loaded
\* ------------------------------------------------------------------------

Init ==
  /\ userInput = <<>>
  /\ msgInput = <<>>
  /\ currentUser = <<>>
  /\ typingEl = Null
  /\ chat = <<>>
  /\ calls = <<>>
  /\ alerted = <<>>
  /\ event = Ev("load", 0, NoData)
  /\ rtText = <<>>
  /\ rtHtml = <<>>

\* ------------------------------------------------------------------------
\* The user edits the inputs
\* ------------------------------------------------------------------------

TypeUserId(t) ==
  /\ t # userInput
  /\ userInput' = t
  /\ alerted' = <<>>
  /\ event' = Ev("typeUserId", 0, NoData)
  /\ UNCHANGED <<msgInput, currentUser, typingEl, chat, calls>>
  /\ UNCHANGED renderVars

TypeMessage(t) ==
  /\ t # msgInput
  /\ msgInput' = t
  /\ alerted' = <<>>
  /\ event' = Ev("typeMessage", 0, NoData)
  /\ UNCHANGED <<userInput, currentUser, typingEl, chat, calls>>
  /\ UNCHANGED renderVars

\* ------------------------------------------------------------------------
\* startSession
\* ------------------------------------------------------------------------

\* click on #startBtn with an empty user id: alert and return
StartRejected ==
  LET userId == Trim(userInput) IN
  /\ ~StartAccepts(userId)
  /\ alerted' = EnterYourName
  /\ event' = Ev("startSession", 0, NoData)
  /\ UNCHANGED <<userInput, msgInput, currentUser, typingEl, chat, calls>>
  /\ UNCHANGED renderVars

\* startSession that refuses to start again after a failed start
StartIssuedNoRetry ==
  LET userId == Trim(userInput)
      n == Len(calls) + 1
      d == showTyping(Dom(chat, typingEl), n)
  IN
  /\ StartAccepts(userId)
  /\ \A k \in 1..Len(calls) : ~(calls[k].kind = "start" /\ calls[k].pc = "failed")
  /\ Len(calls) < MaxReq
  /\ currentUser' = userId
  /\ chat' = d.chat
  /\ typingEl' = d.typingEl
  /\ calls' = Append(calls, Call("start", userId, <<>>))
  /\ alerted' = <<>>
  /\ event' = Ev("startSession", n, NoData)
  /\ UNCHANGED <<userInput, msgInput>>
  /\ UNCHANGED renderVars

\* click on #startBtn: startSession up to `await fetch`
StartIssued ==
  LET userId == Trim(userInput)
      n == Len(calls) + 1
      d == showTyping(Dom(chat, typingEl), n)
  IN
  /\ StartAccepts(userId)
  /\ Len(calls) < MaxReq
  /\ currentUser' = userId
  /\ chat' = d.chat
  /\ typingEl' = d.typingEl
  /\ calls' = Append(calls, Call("start", userId, <<>>))
  /\ alerted' = <<>>
  /\ event' = Ev("startSession", n, NoData)
  /\ UNCHANGED <<userInput, msgInput>>
  /\ UNCHANGED renderVars

\* fetch resolves with a Response (of either call kind); `await res.json()`
FetchResolved(n, ok) ==
  /\ n \in 1..Len(calls)
  /\ calls[n].pc = "fetch"
  /\ calls' = [calls EXCEPT ![n].pc = "json", ![n].ok = ok]
  /\ alerted' = <<>>
  /\ event' = Ev("fetchResolved", n, NoData)
  /\ UNCHANGED <<userInput, msgInput, currentUser, typingEl, chat>>
  /\ UNCHANGED renderVars

\* Variants of the try block's rest: without hideTyping (hides = FALSE),
\* clearing the log on the success branch only (clearsAlways = FALSE),
\* aborting the other calls in flight (aborts = TRUE).
StartResponseVariant(n, data, hides, clearsAlways, aborts) ==
  LET good == StartPayloadOk(calls[n].ok, data)
      d1 == IF hides THEN hideTyping(Dom(chat, typingEl)) ELSE Dom(chat, typingEl)
      d2 == IF clearsAlways \/ good THEN clearChat(d1) ELSE d1
      d3 == IF good
            THEN addMessage(d2, "assistant", data.message, n)
            ELSE addMessage(d2, "assistant", WelcomeBackMsg, n)
  IN
  /\ n \in 1..Len(calls)
  /\ calls[n].kind = "start"
  /\ calls[n].pc = "json"
  /\ chat' = d3.chat
  /\ typingEl' = d3.typingEl
  /\ calls' = [k \in 1..Len(calls) |->
                 IF k = n THEN Settled(calls[n].kind, "done")
                 ELSE IF aborts /\ calls[k].pc \in {"fetch", "json"}
                      THEN Settled(calls[k].kind, "failed")
                      ELSE calls[k]]
  /\ alerted' = <<>>
  /\ event' = Ev("jsonResolved", n, data)
  /\ UNCHANGED <<userInput, msgInput, currentUser>>
  /\ UNCHANGED renderVars

StartResponseNoHide(n, data) == StartResponseVariant(n, data, FALSE, TRUE, FALSE)
StartResponseClearsOnSuccess(n, data) == StartResponseVariant(n, data, TRUE, FALSE, FALSE)
StartResponseAborts(n, data) == StartResponseVariant(n, data, TRUE, TRUE, TRUE)

\* res.json() resolves in startSession: the rest of the try block
StartResponse(n, data) ==
  LET d1 == hideTyping(Dom(chat, typingEl))
      d2 == clearChat(d1)
      d3 == IF StartPayloadOk(calls[n].ok, data)
            THEN addMessage(d2, "assistant", data.message, n)
            ELSE addMessage(d2, "assistant", WelcomeBackMsg, n)
  IN
  /\ n \in 1..Len(calls)
  /\ calls[n].kind = "start"
  /\ calls[n].pc = "json"
  /\ chat' = d3.chat
  /\ typingEl' = d3.typingEl
  /\ calls' = [calls EXCEPT ![n] = Settled(calls[n].kind, "done")]
  /\ alerted' = <<>>
  /\ event' = Ev("jsonResolved", n, data)
  /\ UNCHANGED <<userInput, msgInput, currentUser>>
  /\ UNCHANGED renderVars

\* a catch block that clears the log as the try block does
StartCatchClears(n) ==
  LET d1 == clearChat(hideTyping(Dom(chat, typingEl)))
      d2 == addMessage(d1, "assistant", FailedStartMsg, n)
  IN
  /\ n \in 1..Len(calls)
  /\ calls[n].kind = "start"
  /\ calls[n].pc \in {"fetch", "json"}
  /\ chat' = d2.chat
  /\ typingEl' = d2.typingEl
  /\ calls' = [calls EXCEPT ![n] = Settled(calls[n].kind, "failed")]
  /\ alerted' = <<>>
  /\ event' = Ev(IF calls[n].pc = "fetch" THEN "fetchRejected" ELSE "jsonRejected", n, NoData)
  /\ UNCHANGED <<userInput, msgInput, currentUser>>
  /\ UNCHANGED renderVars

\* a catch block that also drops the session
StartCatchResets(n) ==
  LET d1 == hideTyping(Dom(chat, typingEl))
      d2 == addMessage(d1, "assistant", FailedStartMsg, n)
  IN
  /\ n \in 1..Len(calls)
  /\ calls[n].kind = "start"
  /\ calls[n].pc \in {"fetch", "json"}
  /\ currentUser' = <<>>
  /\ chat' = d2.chat
  /\ typingEl' = d2.typingEl
  /\ calls' = [calls EXCEPT ![n] = Settled(calls[n].kind, "failed")]
  /\ alerted' = <<>>
  /\ event' = Ev(IF calls[n].pc = "fetch" THEN "fetchRejected" ELSE "jsonRejected", n, NoData)
  /\ UNCHANGED <<userInput, msgInput>>
  /\ UNCHANGED renderVars

\* fetch or res.json() rejects in startSession: the catch block
StartCatch(n) ==
  LET d1 == hideTyping(Dom(chat, typingEl))
      d2 == addMessage(d1, "assistant", FailedStartMsg, n)
  IN
  /\ n \in 1..Len(calls)
  /\ calls[n].kind = "start"
  /\ calls[n].pc \in {"fetch", "json"}
  /\ chat' = d2.chat
  /\ typingEl' = d2.typingEl
  /\ calls' = [calls EXCEPT ![n] = Settled(calls[n].kind, "failed")]
  /\ alerted' = <<>>
  /\ event' = Ev(IF calls[n].pc = "fetch" THEN "fetchRejected" ELSE "jsonRejected", n, NoData)
  /\ UNCHANGED <<userInput, msgInput, currentUser>>
  /\ UNCHANGED renderVars

\* ------------------------------------------------------------------------
\* send
\* ------------------------------------------------------------------------

\* click on #sendBtn or Enter in #message, refused by the guard: return
SendIgnored ==
  LET text == Trim(msgInput) IN
  /\ ~SendAccepts(text, currentUser)
  /\ alerted' = <<>>
  /\ event' = Ev("send", 0, NoData)
  /\ UNCHANGED <<userInput, msgInput, currentUser, typingEl, chat, calls>>
  /\ UNCHANGED renderVars

\* send that leaves the text in the input
SendIssuedKeepsInput ==
  LET text == Trim(msgInput)
      n == Len(calls) + 1
      d1 == addMessage(Dom(chat, typingEl), "user", text, n)
      d2 == showTyping(d1, n)
  IN
  /\ SendAccepts(text, currentUser)
  /\ Len(calls) < MaxReq
  /\ chat' = d2.chat
  /\ typingEl' = d2.typingEl
  /\ calls' = Append(calls, Call("chat", currentUser, text))
  /\ alerted' = <<>>
  /\ event' = Ev("send", n, NoData)
  /\ UNCHANGED <<userInput, msgInput, currentUser>>
  /\ UNCHANGED renderVars

\* click on #sendBtn or Enter in #message: send up to `await fetch`
SendIssued ==
  LET text == Trim(msgInput)
      n == Len(calls) + 1
      d1 == addMessage(Dom(chat, typingEl), "user", text, n)
      d2 == showTyping(d1, n)
  IN
  /\ SendAccepts(text, currentUser)
  /\ Len(calls) < MaxReq
  /\ msgInput' = <<>>
  /\ chat' = d2.chat
  /\ typingEl' = d2.typingEl
  /\ calls' = Append(calls, Call("chat", currentUser, text))
  /\ alerted' = <<>>
  /\ event' = Ev("send", n, NoData)
  /\ UNCHANGED <<userInput, currentUser>>
  /\ UNCHANGED renderVars

\* a try block's rest that drops the reply when no indicator is shown
ChatResponseDropsLate(n, data) ==
  LET d1 == hideTyping(Dom(chat, typingEl))
      d2 == IF typingEl = Null THEN d1
            ELSE IF ChatPayloadOk(calls[n].ok, data)
            THEN addMessage(d1, "assistant", data.response, n)
            ELSE addMessage(d1, "assistant", NoResponseMsg, n)
  IN
  /\ n \in 1..Len(calls)
  /\ calls[n].kind = "chat"
  /\ calls[n].pc = "json"
  /\ chat' = d2.chat
  /\ typingEl' = d2.typingEl
  /\ calls' = [calls EXCEPT ![n] = Settled(calls[n].kind, "done")]
  /\ alerted' = <<>>
  /\ event' = Ev("jsonResolved", n, data)
  /\ UNCHANGED <<userInput, msgInput, currentUser>>
  /\ UNCHANGED renderVars

\* res.json() resolves in send: the rest of the try block
ChatResponse(n, data) ==
  LET d1 == hideTyping(Dom(chat, typingEl))
      d2 == IF ChatPayloadOk(calls[n].ok, data)
            THEN addMessage(d1, "assistant", data.response, n)
            ELSE addMessage(d1, "assistant", NoResponseMsg, n)
  IN
  /\ n \in 1..Len(calls)
  /\ calls[n].kind = "chat"
  /\ calls[n].pc = "json"
  /\ chat' = d2.chat
  /\ typingEl' = d2.typingEl
  /\ calls' = [calls EXCEPT ![n] = Settled(calls[n].kind, "done")]
  /\ alerted' = <<>>
  /\ event' = Ev("jsonResolved", n, data)
  /\ UNCHANGED <<userInput, msgInput, currentUser>>
  /\ UNCHANGED renderVars

\* a catch block without hideTyping
ChatCatchLeavesIndicator(n) ==
  LET d2 == addMessage(Dom(chat, typingEl), "assistant", NetworkErrorMsg, n)
  IN
  /\ n \in 1..Len(calls)
  /\ calls[n].kind = "chat"
  /\ calls[n].pc \in {"fetch", "json"}
  /\ chat' = d2.chat
  /\ typingEl' = d2.typingEl
  /\ calls' = [calls EXCEPT ![n] = Settled(calls[n].kind, "failed")]
  /\ alerted' = <<>>
  /\ event' = Ev(IF calls[n].pc = "fetch" THEN "fetchRejected" ELSE "jsonRejected", n, NoData)
  /\ UNCHANGED <<userInput, msgInput, currentUser>>
  /\ UNCHANGED renderVars

\* fetch or res.json() rejects in send: the catch block
ChatCatch(n) ==
  LET d1 == hideTyping(Dom(chat, typingEl))
      d2 == addMessage(d1, "assistant", NetworkErrorMsg, n)
  IN
  /\ n \in 1..Len(calls)
  /\ calls[n].kind = "chat"
  /\ calls[n].pc \in {"fetch", "json"}
  /\ chat' = d2.chat
  /\ typingEl' = d2.typingEl
  /\ calls' = [calls EXCEPT ![n] = Settled(calls[n].kind, "failed")]
  /\ alerted' = <<>>
  /\ event' = Ev(IF calls[n].pc = "fetch" THEN "fetchRejected" ELSE "jsonRejected", n, NoData)
  /\ UNCHANGED <<userInput, msgInput, currentUser>>
  /\ UNCHANGED renderVars

\* ------------------------------------------------------------------------
\* The event loop
\* ------------------------------------------------------------------------

Next ==
  \/ \E t \in TypedUserIds : TypeUserId(t)
  \/ \E t \in TypedMessages : TypeMessage(t)
  \/ StartRejected
  \/ StartIssued
  \/ SendIgnored
  \/ SendIssued
  \/ \E n \in 1..MaxReq, ok \in BOOLEAN : FetchResolved(n, ok)
  \/ \E n \in 1..MaxReq, data \in DataValues : StartResponse(n, data)
  \/ \E n \in 1..MaxReq : StartCatch(n)
  \/ \E n \in 1..MaxReq, data \in DataValues : ChatResponse(n, data)
  \/ \E n \in 1..MaxReq : ChatCatch(n)

Spec == Init /\ [][Next]_vars

\* The network settles every request: the promise of fetch settles, so its
\* resolution, while it stays possible, is eventually delivered; and the
\* promise of res.json() does not stay pending for ever.
FairSpec ==
  /\ Spec
  /\ \A n \in 1..MaxReq :
       /\ WF_vars(\E ok \in BOOLEAN : FetchResolved(n, ok))
       /\ []<>(~(n \in 1..Len(calls) /\ calls[n].pc = "json"))

\* ------------------------------------------------------------------------
\* renderText
\* ------------------------------------------------------------------------

\* `.` of a regular expression: any character but a line terminator
Dot(c) == c # "\n"

\* s holds d asterisks from position i on
StarsAt(s, i, d) == i + d - 1 <= Len(s) /\ \A q \in 0..(d - 1) : s[i + q] = "*"

\* Lengths j of a group (.+?) that lets d asterisks, the group and d
\* asterisks match at position i of s
GroupLens(s, i, d) ==
  { j \in 1..Len(s) :
      /\ StarsAt(s, i, d)
      /\ \A p \in (i + d)..(i + d + j - 1) : p <= Len(s) /\ Dot(s[p])
      /\ StarsAt(s, i + d + j, d) }

Least(S) == CHOOSE j \in S : \A k \in S : j <= k

\* s.replace(/\*{d}(.+?)\*{d}/g, open $1 close) from position i on: the
\* lazy group takes the least length that matches
RECURSIVE ReplaceEmphasis(_, _, _, _, _)
ReplaceEmphasis(s, i, d, open, close) ==
  IF i > Len(s) THEN <<>>
  ELSE IF GroupLens(s, i, d) # {}
       THEN LET j == Least(GroupLens(s, i, d)) IN
            <<open>> \o SubSeq(s, i + d, i + d + j - 1) \o <<close>>
              \o ReplaceEmphasis(s, i + 2 * d + j, d, open, close)
       ELSE <<s[i]>> \o ReplaceEmphasis(s, i + 1, d, open, close)

\* s.replace(/ab/g, out) from position i on, for two characters a and b
RECURSIVE ReplacePair(_, _, _, _, _)
ReplacePair(s, i, a, b, out) ==
  IF i > Len(s) THEN <<>>
  ELSE IF i < Len(s) /\ s[i] = a /\ s[i + 1] = b
       THEN out \o ReplacePair(s, i + 2, a, b, out)
       ELSE <<s[i]>> \o ReplacePair(s, i + 1, a, b, out)

\* .replace(/\*\*(.+?)\*\*/g,'<strong>$1</strong>')
ReplaceBold(s) == ReplaceEmphasis(s, 1, 2, "<strong>", "</strong>")

\* .replace(/\*(.+?)\*/g,'<em>$1</em>')
ReplaceItalic(s) == ReplaceEmphasis(s, 1, 1, "<em>", "</em>")

\* a paragraph break that opens the new paragraph without closing the old
ReplaceBlankLinesUnclosed(s) == ReplacePair(s, 1, "\n", "\n", <<"<p>">>)

\* .replace(/\n\n/g,'</p><p>')
ReplaceBlankLines(s) == ReplacePair(s, 1, "\n", "\n", <<"</p>", "<p>">>)

\* .replace(/\n-/g,'<br>(bullet)'); "bullet" is the character U+2022
ReplaceBullets(s) == ReplacePair(s, 1, "\n", "-", <<"<br>", "bullet">>)

\* renderText(text)
renderText(text) ==
  LET t == ReplaceBullets(ReplaceBlankLines(ReplaceItalic(ReplaceBold(text))))
  IN <<"<p>">> \o t \o <<"</p>">>

\* renderText is about to be called with some text
RenderInit ==
  /\ userInput = <<>>
  /\ msgInput = <<>>
  /\ currentUser = <<>>
  /\ typingEl = Null
  /\ chat = <<>>
  /\ calls = <<>>
  /\ alerted = <<>>
  /\ event = Ev("load", 0, NoData)
  /\ rtText \in RenderTexts
  /\ rtHtml = <<>>

\* renderText returns
RenderReturn ==
  /\ rtHtml = <<>>
  /\ rtHtml' = renderText(rtText)
  /\ UNCHANGED rtText
  /\ UNCHANGED widgetVars

RenderNext == RenderReturn

\* renderText alone, applied to every text of RenderTexts
RenderSpec == RenderInit /\ [][RenderNext]_vars

\* ------------------------------------------------------------------------
\* Vocabulary of the properties
\* ------------------------------------------------------------------------

\* The message rows of a log, without the indicator.
NonTyping(c) == SelectSeq(c, LAMBDA row : ~IsTyping(row))

TypingCount(c) == Cardinality({i \in 1..Len(c) : IsTyping(c[i])})

\* Positions of the rows of one role that call n created.
RowsOf(c, role, n) == {i \in 1..Len(c) : c[i].role = role /\ c[i].node = n}

InFlight(n) == n \in 1..Len(calls) /\ calls[n].pc \in {"fetch", "json"}

\* This step runs a handler up to its fetch and issues call n.
IssuedStep(kind, n) ==
  /\ Len(calls') = Len(calls) + 1
  /\ n = Len(calls')
  /\ calls'[n].kind = kind

\* This step runs the rest of call n's try block, after res.json() resolved.
ResponseStep(kind, n) ==
  /\ n \in 1..Len(calls)
  /\ calls[n].kind = kind
  /\ calls[n].pc = "json"
  /\ calls'[n].pc = "done"

\* This step runs call n's catch block.
FailureStep(kind, n) ==
  /\ n \in 1..Len(calls)
  /\ calls[n].kind = kind
  /\ calls[n].pc \in {"fetch", "json"}
  /\ calls'[n].pc = "failed"

\* The body delivered in this step has a usable field.
UsableMessage(ok, data) == ok /\ ~data.isNull /\ data.message # <<>>
UsableResponse(ok, data) == ok /\ ~data.isNull /\ data.response # <<>>

\* ------------------------------------------------------------------------
\* Properties
\* ------------------------------------------------------------------------

\* C1: in every reachable state the chat log contains at most one
\* typing-indicator node.
C1_AtMostOneIndicator == TypingCount(chat) <= 1

\* Two calls are in flight and the log holds the one indicator.
C1_Witness ==
  /\ TypingCount(chat) = 1
  /\ \E m, n \in 1..Len(calls) : m # n /\ InFlight(m) /\ InFlight(n)

\* C2: when a startSession call ends in a transport failure and no earlier
\* start call has completed, then after the failure is handled currentUser
\* is empty, no indicator is attached and the failure message is the last row.
C2_UnsetAfterStartFailure ==
  [][ \A n \in 1..Len(calls) :
        ( /\ FailureStep("start", n)
          /\ \A k \in 1..(n - 1) : calls[k].kind = "start" => InFlight(k) )
        => ( /\ currentUser' = <<>>
             /\ TypingCount(chat') = 0
             /\ chat'[Len(chat')] = Row("assistant", FailedStartMsg, n) )
    ]_vars

\* C3: a chat request is issued only after some start call has had its
\* response handled (on the success or the degraded path).
C3_NoChatBeforeActive ==
  [][ \A n \in 1..Len(calls') :
        IssuedStep("chat", n)
        => \E k \in 1..Len(calls) : calls[k].kind = "start" /\ calls[k].pc = "done"
    ]_vars

\* C4 as stated: once currentUser is non-empty it never changes value.
C4_NeverChanges ==
  [][ currentUser # <<>> => currentUser' = currentUser ]_vars

\* C4 as amended: currentUser changes only in a step that issues a start
\* call, which sets it to that call's non-empty trimmed user id; no send and
\* no completion of a call changes it, and it never becomes empty again.
C4_ChangesOnlyByStart ==
  [][ currentUser' # currentUser
      => ( /\ IssuedStep("start", Len(calls'))
           /\ currentUser' = calls'[Len(calls')].userId
           /\ currentUser' # <<>>
           /\ event'.op = "startSession" )
    ]_vars

\* A second start call, issued while the first was in flight, replaced the
\* first call's user id in currentUser by another one.
C4_Witness ==
  \E m, n \in 1..Len(calls) :
    /\ m < n
    /\ calls[m].kind = "start" /\ calls[n].kind = "start"
    /\ InFlight(m) /\ InFlight(n)
    /\ calls[m].userId # calls[n].userId
    /\ currentUser = calls[n].userId

\* C5: a send made while currentUser is empty, or with text that is empty
\* after trimming, issues no request and leaves the log, the message input,
\* currentUser and the indicator slot unchanged.
C5_RefusedSendChangesNothing ==
  [][ ( /\ event'.op = "send"
        /\ (currentUser = <<>> \/ Trim(msgInput) = <<>>) )
      => UNCHANGED <<calls, chat, msgInput, currentUser, typingEl>>
    ]_vars

\* A send with text but without a session has just been refused.
C5_Witness ==
  /\ event.op = "send"
  /\ currentUser = <<>>
  /\ Trim(msgInput) # <<>>
  /\ calls = <<>>

\* C6: a startSession whose user id is empty after trimming issues no
\* request and leaves currentUser, the log and the indicator slot unchanged;
\* it raises the prompt.
C6_EmptyIdStartChangesNothing ==
  [][ ( /\ event'.op = "startSession"
        /\ Trim(userInput) = <<>> )
      => ( /\ UNCHANGED <<calls, currentUser, chat, typingEl>>
           /\ alerted' = EnterYourName )
    ]_vars

\* A start with a blank, non-empty user id has just been refused while a
\* session with messages exists.
C6_Witness ==
  /\ event.op = "startSession"
  /\ alerted = EnterYourName
  /\ userInput # <<>>
  /\ currentUser # <<>>
  /\ chat # <<>>

\* C7: when a start response with ok status and a non-empty message m is
\* handled, the log is exactly one assistant row with text m, no indicator is
\* shown, and currentUser is the user id that call submitted.
C7_StartSuccessState ==
  [][ \A n \in 1..Len(calls) :
        ( /\ ResponseStep("start", n)
          /\ UsableMessage(calls[n].ok, event'.data) )
        => ( /\ Len(chat') = 1
             /\ chat'[1].role = "assistant"
             /\ chat'[1].text = event'.data.message
             /\ typingEl' = Null
             /\ currentUser' = calls[n].userId )
    ]_vars

\* C8: when a start response without a usable message is handled,
\* currentUser is the user id that call submitted and the log contains the
\* fallback welcome as an assistant message.
C8_StartDegradedState ==
  [][ \A n \in 1..Len(calls) :
        ( /\ ResponseStep("start", n)
          /\ ~UsableMessage(calls[n].ok, event'.data) )
        => ( /\ currentUser' = calls[n].userId
             /\ \E i \in 1..Len(chat') :
                  chat'[i].role = "assistant" /\ chat'[i].text = WelcomeBackMsg )
    ]_vars

\* The steps of C9: an accepted send appends the user row with the trimmed
\* text and leaves its call in flight; a chat response with ok status and a
\* non-empty response field appends the assistant row with that text; rows
\* of a call appear only in these steps; and only the handling of a start
\* response removes message rows.
C9_Steps ==
  /\ \A n \in 1..Len(calls') :
       IssuedStep("chat", n)
       => ( /\ calls'[n].text = Trim(msgInput)
            /\ calls'[n].text # <<>>
            /\ calls'[n].pc = "fetch"
            /\ NonTyping(chat') = Append(NonTyping(chat), Row("user", calls'[n].text, n)) )
  /\ \A n \in 1..Len(calls) :
       ( ResponseStep("chat", n) /\ UsableResponse(calls[n].ok, event'.data) )
       => NonTyping(chat') = Append(NonTyping(chat), Row("assistant", event'.data.response, n))
  /\ \A n \in 1..Len(calls') :
       calls'[n].kind = "chat"
       => ( /\ Cardinality(RowsOf(chat', "user", n)) > Cardinality(RowsOf(chat, "user", n))
                 => IssuedStep("chat", n)
            /\ Cardinality(RowsOf(chat', "assistant", n)) > Cardinality(RowsOf(chat, "assistant", n))
                 => (ResponseStep("chat", n) \/ FailureStep("chat", n)) )
  /\ (\A n \in 1..Len(calls) : ~ResponseStep("start", n))
       => ( /\ Len(NonTyping(chat)) <= Len(NonTyping(chat'))
            /\ SubSeq(NonTyping(chat'), 1, Len(NonTyping(chat))) = NonTyping(chat) )

\* The order of C9: the log holds at most one user row and one assistant row
\* of a chat call, the user row first.
C9_Order ==
  \A n \in 1..Len(calls) :
    calls[n].kind = "chat"
    => ( /\ Cardinality(RowsOf(chat, "user", n)) <= 1
         /\ Cardinality(RowsOf(chat, "assistant", n)) <= 1
         /\ \A i \in RowsOf(chat, "user", n), j \in RowsOf(chat, "assistant", n) : i < j )

\* C9: for an accepted send of text x answered with ok status and a
\* non-empty response r, the user row x is appended when send is invoked and
\* the assistant row r when the response is handled, each once; unless a
\* start response is handled in between, x's row is still in the log and
\* precedes r's row.
C9_UserThenAssistant == [][C9_Steps]_vars /\ []C9_Order

\* A chat call was answered and both of its rows are in the log, in order.
C9_Witness ==
  \E n \in 1..Len(calls) :
    /\ calls[n].kind = "chat" /\ calls[n].pc = "done"
    /\ \E i, j \in 1..Len(chat) :
         /\ i < j
         /\ chat[i].role = "user" /\ chat[i].node = n /\ chat[i].text # <<>>
         /\ chat[j] = Row("assistant", <<"Hello">>, n)

\* C10: when a chat call ends in a transport failure, the network-error
\* assistant row is appended after the message rows the log held, among them
\* the call's user row unless a start response removed it, and right after
\* the failure is handled no indicator is attached and the slot is null,
\* whatever else is in flight.
C10_ChatFailure ==
  [][ /\ \A n \in 1..Len(calls') :
           IssuedStep("chat", n)
           => chat'[Len(NonTyping(chat)) + 1 + TypingCount(chat)] = Row("user", Trim(msgInput), n)
      /\ \A n \in 1..Len(calls) :
        FailureStep("chat", n)
        => ( /\ NonTyping(chat') = Append(NonTyping(chat), Row("assistant", NetworkErrorMsg, n))
             /\ TypingCount(chat') = 0
             /\ chat' = NonTyping(chat')
             /\ typingEl' = Null
             /\ RowsOf(chat, "user", n) # {}
                  => \A i \in RowsOf(chat', "user", n) : i < Len(chat') )
    ]_vars

\* A chat call has just failed while another call is in flight: its user row
\* and the error row are in the log and no indicator is.
C10_Witness ==
  \E n \in 1..Len(calls) :
    /\ calls[n].kind = "chat" /\ calls[n].pc = "failed"
    /\ event.call = n
    /\ \E m \in 1..Len(calls) : InFlight(m)
    /\ Len(chat) = 2
    /\ chat[1].role = "user" /\ chat[1].node = n /\ chat[1].text # <<>>
    /\ chat[2] = Row("assistant", NetworkErrorMsg, n)
    /\ typingEl = Null

\* C11: with a network that settles every request, an attached indicator is
\* eventually removed; and when no issued request is in flight, no indicator
\* is attached and the slot is null.
C11_IndicatorRemoved ==
  /\ (TypingCount(chat) > 0) ~> (TypingCount(chat) = 0)
  /\ [] ( (\A n \in 1..Len(calls) : ~InFlight(n))
          => (TypingCount(chat) = 0 /\ typingEl = Null) )

\* Every issued call has settled, the last one by its catch block, and the
\* indicator it showed is gone.
C11_Witness ==
  /\ Len(calls) >= 2
  /\ \A n \in 1..Len(calls) : ~InFlight(n)
  /\ calls[Len(calls)].kind = "chat" /\ calls[Len(calls)].pc = "failed"
  /\ TypingCount(chat) = 0
  /\ typingEl = Null

\* Occurrences of a token in a text.
Count(s, tok) == Cardinality({i \in 1..Len(s) : s[i] = tok})

\* Blank lines of a text: pairs of consecutive newlines from position i on,
\* taken left to right without overlap.
RECURSIVE BlankLines(_, _)
BlankLines(t, i) ==
  IF i >= Len(t) THEN 0
  ELSE IF t[i] = "\n" /\ t[i + 1] = "\n" THEN 1 + BlankLines(t, i + 2)
       ELSE BlankLines(t, i + 1)

\* C13 as stated: the result of renderText holds exactly one opening and one
\* closing paragraph tag, at its start and at its end.
C13_OneParagraph ==
  rtHtml # <<>>
  => ( /\ rtHtml[1] = "<p>"
       /\ rtHtml[Len(rtHtml)] = "</p>"
       /\ Count(rtHtml, "<p>") = 1
       /\ Count(rtHtml, "</p>") = 1 )

\* C13 as amended: the result of renderText starts with an opening and ends
\* with a closing paragraph tag and holds one more closing and opening tag,
\* next to each other, for every blank line of the text; it holds exactly
\* one of each when the text has no blank line.
C13_ParagraphPerBlankLine ==
  rtHtml # <<>>
  => ( /\ rtHtml[1] = "<p>"
       /\ rtHtml[Len(rtHtml)] = "</p>"
       /\ Count(rtHtml, "<p>") = 1 + BlankLines(rtText, 1)
       /\ Count(rtHtml, "</p>") = 1 + BlankLines(rtText, 1)
       /\ \A i \in 2..(Len(rtHtml) - 1) :
            (rtHtml[i] = "</p>") <=> (rtHtml[i + 1] = "<p>")
       /\ rtHtml[2] # "<p>" )

\* renderText returned for a text with emphasis and a blank line.
C13_Witness ==
  /\ rtText = <<"*", "a", "*", "\n", "\n">>
  /\ rtHtml = <<"<p>", "<em>", "a", "</em>", "</p>", "<p>", "</p>">>

\* This step runs the rest of call n's try block or its catch block.
CompletionStep(n) ==
  \E kind \in {"start", "chat"} : ResponseStep(kind, n) \/ FailureStep(kind, n)

\* C12: in every reachable state, calling showTyping twice leaves what calling
\* it once leaves, a log with exactly one indicator that the slot refers to;
\* and hideTyping with a null slot changes nothing.
C12_Idempotent ==
  LET d == Dom(chat, typingEl) IN
  /\ \A m \in 1..MaxReq, n \in 1..MaxReq :
       LET once == showTyping(d, m) IN
       /\ showTyping(once, n) = once
       /\ TypingCount(once.chat) = 1
       /\ once.typingEl # Null
       /\ Attached(once)
  /\ typingEl = Null => hideTyping(d) = d

\* startSession has just called showTyping while the indicator of the first
\* call was still shown.
C12_Witness ==
  /\ event = Ev("startSession", 2, NoData)
  /\ InFlight(1)
  /\ typingEl = 1
  /\ TypingCount(chat) = 1

\* C14: a handler issuing a call while the slot is non-null adds no
\* indicator and leaves the slot; the completion of any call leaves no
\* indicator and a null slot whatever else is in flight; and a completion
\* that finds the slot null still shows its message as the last row, its
\* hideTyping leaving the rows before it as they were.
C14_Overlap ==
  [][ /\ \A n \in 1..MaxReq :
           (Len(calls') = Len(calls) + 1 /\ n = Len(calls') /\ typingEl # Null)
           => (typingEl' = typingEl /\ TypingCount(chat') = 1)
      /\ \A n \in 1..MaxReq :
           CompletionStep(n)
           => ( /\ typingEl' = Null
                /\ TypingCount(chat') = 0
                /\ chat' # <<>>
                /\ chat'[Len(chat')].role = "assistant"
                /\ chat'[Len(chat')].node = n )
      /\ \A n \in 1..MaxReq :
           (CompletionStep(n) /\ typingEl = Null /\ ~ResponseStep("start", n))
           => ( /\ Len(chat') = Len(chat) + 1
                /\ SubSeq(chat', 1, Len(chat)) = chat )
    ]_vars

\* A call is in flight after the completion of another one removed the
\* indicator.
C14_Witness ==
  /\ \E n \in 1..Len(calls) : InFlight(n)
  /\ \E n \in 1..Len(calls) : calls[n].pc \in {"done", "failed"}
  /\ event.op \in {"jsonResolved", "fetchRejected", "jsonRejected"}
  /\ typingEl = Null
  /\ TypingCount(chat) = 0

\* The text the completion of chat call n appends in this step.
ChatReplyText(n) ==
  IF calls'[n].pc = "failed" THEN NetworkErrorMsg
  ELSE IF UsableResponse(calls[n].ok, event'.data) THEN event'.data.response
  ELSE NoResponseMsg

\* C15: a start response leaves the other calls as they are, in flight if
\* they were; and the completion of a chat call whose user row is no longer
\* in the log still appends its message after the rows present.
C15_StaleReply ==
  [][ /\ \A n \in 1..MaxReq :
           ResponseStep("start", n)
           => \A m \in 1..Len(calls) : m # n => calls'[m] = calls[m]
      /\ \A n \in 1..MaxReq :
           ( /\ ResponseStep("chat", n) \/ FailureStep("chat", n)
             /\ RowsOf(chat, "user", n) = {} )
           => NonTyping(chat') =
                Append(NonTyping(chat), Row("assistant", ChatReplyText(n), n))
    ]_vars

\* The log holds the reply of a chat call below the first row of a later
\* start response, and not the user message the reply answers.
C15_Witness ==
  \E n \in 1..Len(calls) :
    /\ calls[n].kind = "chat"
    /\ calls[n].pc = "done"
    /\ event.op = "jsonResolved" /\ event.call = n
    /\ RowsOf(chat, "user", n) = {}
    /\ Len(chat) = 2
    /\ chat[1].role = "assistant" /\ chat[1].node # n
    /\ chat[2].role = "assistant" /\ chat[2].node = n

C17_SlotMatchesLog ==
  /\ [] ( /\ (typingEl # Null) <=> (TypingCount(chat) = 1)
          /\ TypingCount(chat) <= 1
          /\ typingEl # Null => Attached(Dom(chat, typingEl)) )
  /\ [][ (typingEl # Null /\ typingEl' # Null)
         => ( /\ Len(chat') >= Len(chat)
              /\ SubSeq(chat', 1, Len(chat)) = chat ) ]_vars

\* The indicator of the second call is shown below the message of the
\* first one.
C17_Witness ==
  /\ typingEl = 2
  /\ Len(chat) = 2
  /\ chat[1].role = "assistant"
  /\ chat[2] = Row("typing", <<>>, 2)

C19_StartFailureKeepsLog ==
  [][ \A n \in 1..MaxReq :
        FailureStep("start", n)
        => ( /\ NonTyping(chat') =
                  Append(NonTyping(chat), Row("assistant", FailedStartMsg, n))
             /\ TypingCount(chat') = 0 )
    ]_vars

\* A start failed after a user message was shown: the message is still
\* there, above the failure message.
C19_Witness ==
  /\ event.op \in {"fetchRejected", "jsonRejected"}
  /\ calls[event.call].kind = "start"
  /\ Len(chat) >= 2
  /\ chat[1].role = "user"
  /\ chat[Len(chat)] = Row("assistant", FailedStartMsg, event.call)

\* C20: an accepted send empties the message input; a send that finds it
\* empty issues no call and adds no row; and the input gets text again only
\* by the user entering it.
C20_NoResend ==
  [][ /\ \A n \in 1..MaxReq :
           IssuedStep("chat", n) => (Trim(msgInput) # <<>> /\ msgInput' = <<>>)
      /\ (event'.op = "send" /\ event' # event /\ msgInput = <<>>)
         => UNCHANGED <<calls, chat, typingEl>>
      /\ (msgInput' # msgInput /\ msgInput' # <<>>) => event'.op = "typeMessage"
    ]_vars

\* A second click on send, with the first chat call in flight and nothing
\* entered since, was ignored.
C20_Witness ==
  /\ event = Ev("send", 0, NoData)
  /\ msgInput = <<>>
  /\ \E n \in 1..Len(calls) : calls[n].kind = "chat" /\ InFlight(n)
  /\ Cardinality({i \in 1..Len(chat) : chat[i].role = "user"}) = 1

====
